---- MODULE Spec2Model ----
(***************************************************************************)
(* The purchase-execution pipeline of the Pokemon card auto-purchase       *)
(* system: PurchaseManager (src/src/purchaser/basePurchaser.js), the       *)
(* purchasers it drives, the cancel route (src/src/routes/purchases.js)    *)
(* and the purchase-creating side of ScraperManager                        *)
(* (src/src/scrapers/scraperManager.js).                                   *)
(*                                                                         *)
(* Node runs each handler to its next `await` without interruption, so a   *)
(* step of the model is one database operation together with the           *)
(* synchronous code that follows it up to the point where the next         *)
(* operation is issued.  Every cron tick and every cancel request is an    *)
(* invocation of its own, with its own copies of the documents it read;    *)
(* save() writes the paths the invocation changed on its copy.             *)
(***************************************************************************)
EXTENDS Integers, Sequences, FiniteSets, Bags, TLC

\* ---------------------------------------------------------------- bounds
MaxBacklog == 4         \* pending purchases found in the ledger at construction
MaxNew == 1             \* purchases queued by manualPurchase in one run
MaxQueued == 2          \* purchases queued by the scraper in one run
MaxTasks == 2           \* handler invocations in flight at once
MaxTicks == 4           \* the same, where only processPendingPurchases ticks run
MaxErrors == 4          \* error records per Purchase
MaxPrice == 3           \* scraped prices 0..MaxPrice
MaxFifoTicks == 1       \* ticks in flight where the pickup order is observed
MaxCeiling == 4         \* values 1..MaxCeiling of attemptInfo.maxAttempts
MaxBotPurchases == 2    \* purchase records the bot adds in one run
MaxTimers == 2          \* initial-tick timeouts pending at once
MaxScrapes == 2         \* scrapeByPriority invocations in flight at once
MaxStarts == 3          \* start() calls counted between two stop() calls

\* ------------------------------------------------------ program constants
maxConcurrentPurchases == 3     \* PurchaseManager constructor
DefaultAttemptNumber == 1       \* purchaseSchema.attemptInfo.attemptNumber
DefaultMaxAttempts == 3         \* purchaseSchema.attemptInfo.maxAttempts
QueryAttemptCeiling == 3        \* 'attemptInfo.attemptNumber': { $lte: 3 }
RetryAttemptFloor == 2          \* { $gte: 2, $lte: 3 }
RetryCooldown == 1              \* 10 * 60 * 1000 ms; the clock unit is 10 minutes
BotCooldown == 1                \* 300000 ms; the bot's clock unit is 5 minutes
BotDealFloor == 80              \* simulateMarketPrice: from 80% of the target
FallbackDealFloor == 70         \* simulateReasonablePrice: from 70% of the target
RetentionWindow == 2            \* 24 * 60 * 60 * 1000 ms; the cache clock unit is 12 hours

\* keys of PurchaseManager.purchasers
Purchasers == {"target", "bestbuy", "pokemoncenter"}
\* purchasers whose executePurchase runs through the isCancelled checkpoints
CheckpointPurchasers == {"target"}
\* the retailers the tracked items are watched on, among the keys of
\* ScraperManager.scrapers: target has a purchaser, walmart has none
Websites == {"target", "walmart"}
\* the scrapers among them whose scrapeProduct can return success: true
\* (WalmartScraper calls a makeRequest that no class defines)
WorkingScrapers == {"target"}
\* the tracked items: sku1 is bought automatically, sku2 asks for confirmation
Skus == {"sku1", "sku2"}
\* the priority tiers of scrapeByPriority, and the cron jobs of start()
Tiers == {"high", "medium", "low"}
Jobs == Tiers \cup {"cleanup"}
\* SKU.priority as the items were created
Priority(s) == IF s = "sku1" THEN "high" ELSE "medium"
\* SKU.targetPrice, SKU.purchaseSettings
TargetPrice(s) == 2
AutoPurchase(s) == TRUE
RequireConfirmation(s) == s = "sku2"
\* SKU.maxPrice
SkuMaxPrice(s) == 3
\* User.settings.emailNotifications of the Purchases' owner
EmailNotifications == TRUE

VARIABLES
    ledger,             \* the Purchase collection, in insertion order
    isRunning,          \* PurchaseManager.isRunning
    activePurchases,    \* keys of PurchaseManager.activePurchases
    isCancelled,        \* BasePurchaser.isCancelled, per purchaser
    tasks,              \* handler invocations in flight (a bag)
    results,            \* ScraperManager.results, the result cache
    emitted,            \* what the last decision run saw, sent and logged
    botRunning,         \* AutomatedPurchaseBot.isRunning
    realScrapingEnabled,\* AutomatedPurchaseBot.realScrapingEnabled
    testPurchases,      \* the purchase records of testStorage, in insertion order
    purchaseAttempts,   \* AutomatedPurchaseBot.purchaseAttempts
    checks,             \* checkForPurchaseOpportunities invocations in flight
    scraperIsRunning,   \* ScraperManager.isRunning
    cronJobs,           \* ScraperManager.cronJobs, the jobs it holds
    scheduled,          \* per job, the cron tasks scheduled and not destroyed
    initialTimers,      \* pending setTimeout calls of start()
    startCalls,         \* history: start() calls since the last stop()
    scrapes,            \* scrapeByPriority invocations in flight (a bag)
    browser,            \* BaseScraper.browser, per scraper
    page,               \* BaseScraper.page, per scraper: the item whose product page it shows
    report,             \* the counts the last finished tier tick logged
    emailDown,          \* the mail transport fails every sendMail
    priority            \* SKU.priority, per item

botVars == <<botRunning, realScrapingEnabled, testPurchases, purchaseAttempts, checks>>
schedVars ==
    <<scraperIsRunning, cronJobs, scheduled, initialTimers, startCalls, scrapes, browser,
      page, report>>
scraperVars == <<results, emitted, botVars, schedVars, emailDown, priority>>
vars == <<ledger, isRunning, activePurchases, isCancelled, tasks, scraperVars>>

\* cache keys `${sku._id}_${website.name}`
CacheKeys == Skus \X Websites
\* an entry of the result cache: cached tells whether the Map holds the key,
\* age is the time since the entry's timestamp, in clock units, saturated one
\* unit above the retention window
NoResult == [cached |-> FALSE, price |-> 0, inStock |-> FALSE, age |-> 0]
\* what scraper.scrapeProduct returns: a failure, or a price and a stock flag
FailedProbe == [success |-> FALSE, price |-> 0, inStock |-> FALSE]
Probes ==
    {FailedProbe} \cup
    {[success |-> TRUE, price |-> p, inStock |-> b] : p \in 0..MaxPrice, b \in BOOLEAN}
\* what the scraper of retailer w can return
ProbesOf(w) == IF w \in WorkingScrapers THEN Probes ELSE {FailedProbe}

\* a decision run's trail: the probe result it was given (FailedProbe when
\* there was none), the price and stock flag it decided on, the alert it
\* sent, the outcome it logged; NoEmit before the first run
NoEmit ==
    [by |-> "none", sku |-> "none", website |-> "none", probe |-> FailedProbe,
     price |-> 0, inStock |-> FALSE, alert |-> FALSE, log |-> {}]
\* keys `${sku._id}-${website}` of purchaseAttempts; an absent key is unset
BotKeys == Skus \X Websites
NoAttempt == [set |-> FALSE, since |-> 0]
\* the counts a tier tick logs when its probes have settled; pairs, probed
\* and ok are history fields: the pairs of the tick, those whose probe came
\* back, and those whose probe succeeded
NoReport ==
    [tier |-> "none", succeeded |-> 0, failed |-> 0, pairs |-> {}, probed |-> {}, ok |-> {}, error |-> FALSE]

\* the state of ScraperManager and AutomatedPurchaseBot after construction
ScraperInit ==
    /\ results = [k \in CacheKeys |-> NoResult]
    /\ emitted = NoEmit
    /\ botRunning = FALSE
    /\ realScrapingEnabled = FALSE
    /\ testPurchases = <<>>
    /\ purchaseAttempts = [k \in BotKeys |-> NoAttempt]
    /\ checks = {}
    /\ scraperIsRunning = FALSE
    /\ cronJobs = {}
    /\ scheduled = [j \in Jobs |-> 0]
    /\ initialTimers = 0
    /\ startCalls = 0
    /\ scrapes = EmptyBag
    /\ browser = [w \in Websites |-> "none"]
    /\ page = [w \in Websites |-> "none"]
    /\ report = NoReport
    /\ emailDown = FALSE
    /\ priority = [s \in Skus |-> Priority(s)]

NoTask == [kind |-> "none", pc |-> "none", docs |-> <<>>, limit |-> 0]

\* ------------------------------------------------------------- documents
\* Time enters the program through attemptInfo.lastAttempt alone, and only
\* as Date.now() - lastAttempt: the ledger keeps that difference, sinceAttempt,
\* in clock units and saturated one unit above the cooldown.
Stale == RetryCooldown + 1

\* new Purchase({...}) with the schema defaults (lastAttempt: Date.now).
\* queuedAtFailure is a history field the program does not keep: the number of
\* Purchases in the ledger when the last failed attempt was recorded.
\* stopped is another: stop() was called while the execution of the Purchase
\* that is in flight was running (it is dropped with the execution's outcome).
\* failureHooks and successHooks count the calls of sendPurchaseFailure and
\* sendPurchaseSuccess for the Purchase, lostHooks those among them whose
\* sendMail failed.
NewPurchase(s, w, price) ==
    [sku |-> s, website |-> w, price |-> price, status |-> "pending",
     attemptNumber |-> DefaultAttemptNumber, maxAttempts |-> DefaultMaxAttempts,
     sinceAttempt |-> 0, errors |-> <<>>, queuedAtFailure |-> 0,
     stopped |-> FALSE, failureHooks |-> 0, successHooks |-> 0, lostHooks |-> 0]

Ids == 1..Len(ledger)

\* the copy of a document an invocation holds
Doc(i) == [id |-> i, att |-> ledger[i].attemptNumber, st |-> ledger[i].status]

\* The ledger is kept in insertion order and createdAt is the insertion time,
\* so .sort({ createdAt: 1 }) and the natural order of an unsorted find()
\* both list the selected documents by ascending position.
RECURSIVE SortByCreatedAt(_)
SortByCreatedAt(S) ==
    IF S = {} THEN <<>>
    ELSE LET m == CHOOSE i \in S : \A j \in S : i <= j
         IN <<Doc(m)>> \o SortByCreatedAt(S \ {m})

Limit(s, n) == SubSeq(s, 1, IF Len(s) < n THEN Len(s) ELSE n)

\* Purchase.find({status:'pending', attemptNumber <= 3}).sort(createdAt).limit(n)
PendingQuery(n) ==
    Limit(SortByCreatedAt({i \in Ids : /\ ledger[i].status = "pending"
                                       /\ ledger[i].attemptNumber <= QueryAttemptCeiling}), n)

\* Purchase.find({status:'pending', attemptNumber in 2..3, lastAttempt < now - 10 min})
RetryQuery ==
    SortByCreatedAt({i \in Ids : /\ ledger[i].status = "pending"
                                 /\ ledger[i].attemptNumber >= RetryAttemptFloor
                                 /\ ledger[i].attemptNumber <= QueryAttemptCeiling
                                 /\ ledger[i].sinceAttempt > RetryCooldown})

\* ------------------------------------------------------------ task bag
TaskCount == BagCardinality(tasks)
Running == BagToSet(tasks)
Spawn(tk) == tasks (+) SetToBag({tk})
Replace(tk, nt) ==
    IF nt = NoTask THEN tasks (-) SetToBag({tk})
    ELSE (tasks (-) SetToBag({tk})) (+) SetToBag({nt})

\* The synchronous start of the next loop iteration of a tick: the head of
\* docs is the Purchase the tick turns to, act is activePurchases then.
\*  - retryFailedPurchases skips an item when the manager is at capacity
\*    (nothing changes between two skips, so it skips the rest as well);
\*  - processPurchase throws when the retailer has no purchaser:
\*    processPendingPurchases catches per item and calls handlePurchaseError,
\*    retryFailedPurchases has only the outer catch and abandons the loop;
\*  - otherwise processPurchase marks its copy processing and issues save().
Advance(kind, docs, act) ==
    IF docs = <<>> THEN NoTask
    ELSE IF kind = "retry" /\ Cardinality(act) >= maxConcurrentPurchases THEN NoTask
    ELSE IF ledger[Head(docs).id].website \notin Purchasers
         THEN IF kind = "pending"
              THEN [kind |-> kind, pc |-> "errsave", docs |-> docs, limit |-> 0]
              ELSE NoTask
    ELSE [kind |-> kind, pc |-> "save", docs |-> docs, limit |-> 0]

\* processPurchase without the lastAttempt stamp
MarkProcessingNoStamp(p) == [p EXCEPT !.status = "processing"]

\* processPurchase: status processing and lastAttempt = new Date()
MarkProcessing(p) == [p EXCEPT !.status = "processing", !.sinceAttempt = 0]

\* handlePurchaseError on the copy d: push an error record, attemptNumber += 1,
\* status failed above maxAttempts and pending otherwise; save() writes the
\* changed paths (status only when the assignment changed the copy's value).
HandleErrorStatus(d, p) ==
    IF d.att + 1 > p.maxAttempts THEN "failed"
    ELSE IF d.st = "pending" THEN p.status
    ELSE "pending"

\* the calls a handler makes of its notification hook, and the failed ones
HookCalls == IF EmailNotifications THEN 1 ELSE 0
HookLosses == IF EmailNotifications /\ emailDown THEN 1 ELSE 0

\* handlePurchaseError counting the failed attempt twice
HandlePurchaseErrorTwice(d) ==
    [ledger EXCEPT ![d.id] =
        [@ EXCEPT !.errors = Append(@, "high"),
                  !.attemptNumber = d.att + 2,
                  !.status = HandleErrorStatus(d, ledger[d.id]),
                  !.queuedAtFailure = Len(ledger),
                  !.stopped = FALSE,
                  !.failureHooks = @ + HookCalls,
                  !.lostHooks = @ + HookLosses]]

HandlePurchaseError(d) ==
    [ledger EXCEPT ![d.id] =
        [@ EXCEPT !.errors = Append(@, "high"),
                  !.attemptNumber = d.att + 1,
                  !.status = HandleErrorStatus(d, ledger[d.id]),
                  !.queuedAtFailure = Len(ledger),
                  !.stopped = FALSE,
                  !.failureHooks = @ + HookCalls,
                  !.lostHooks = @ + HookLosses]]

\* handlePurchaseSuccess with a success hook whose failure keeps the status
\* from being recorded
HandlePurchaseSuccessRollback(d) ==
    [ledger EXCEPT ![d.id] =
        [@ EXCEPT !.status = IF HookLosses > 0 THEN @ ELSE "success",
                  !.stopped = FALSE,
                  !.successHooks = @ + HookCalls,
                  !.lostHooks = @ + HookLosses]]

\* handlePurchaseSuccess on the copy d: the save() of status success, then
\* the success hook
HandlePurchaseSuccess(d) ==
    [ledger EXCEPT ![d.id] =
        [@ EXCEPT !.status = "success",
                  !.stopped = FALSE,
                  !.successHooks = @ + HookCalls,
                  !.lostHooks = @ + HookLosses]]

\* ---------------------------------------------------------------- Init
Init ==
    /\ ledger = <<>>
    /\ isRunning = FALSE
    /\ activePurchases = {}
    /\ isCancelled = [w \in Purchasers |-> FALSE]
    /\ tasks = EmptyBag
    /\ ScraperInit

\* -------------------------------------------------------------- actions
\* PurchaseManager.start(): no-op when running
Start ==
    /\ ~isRunning
    /\ isRunning' = TRUE
    /\ UNCHANGED <<ledger, activePurchases, isCancelled, tasks, scraperVars>>

\* PurchaseManager.stop(): cancel() every purchaser of an active purchase,
\* then clear the map; the executions in flight are not awaited
Stop ==
    /\ isRunning \/ activePurchases # {}
    /\ isRunning' = FALSE
    /\ isCancelled' = [w \in Purchasers |->
           isCancelled[w] \/ \E i \in activePurchases : ledger[i].website = w]
    /\ activePurchases' = {}
    /\ ledger' = [i \in Ids |->
           [ledger[i] EXCEPT !.stopped =
               @ \/ (i \in activePurchases /\ ledger[i].status = "processing"
                        /\ \E tk \in BagToSet(tasks) :
                              tk.pc = "exec" /\ Head(tk.docs).id = i)]]
    /\ UNCHANGED <<tasks, scraperVars>>

\* PurchaseManager.manualPurchase: a pending Purchase at the target price
ManualPurchase(s, w) ==
    /\ Len(ledger) < MaxNew
    /\ ledger' = Append(ledger, NewPurchase(s, w, TargetPrice(s)))
    /\ UNCHANGED <<isRunning, activePurchases, isCancelled, tasks, scraperVars>>

\* a cron tick of processPendingPurchases up to the issue of its find():
\* returns at once when stopped or at capacity (n bounds the invocations in
\* flight: the cron job fires whether or not earlier ticks have returned)
PendingTick(n) ==
    /\ isRunning
    /\ TaskCount < n
    /\ Cardinality(activePurchases) < maxConcurrentPurchases
    /\ tasks' = Spawn([kind |-> "pending", pc |-> "find", docs |-> <<>>,
                       limit |-> maxConcurrentPurchases - Cardinality(activePurchases)])
    /\ UNCHANGED <<ledger, isRunning, activePurchases, isCancelled, scraperVars>>

\* the find() of processPendingPurchases and the start of its loop
PendingFind(tk) ==
    /\ tk.kind = "pending" /\ tk.pc = "find"
    /\ tasks' = Replace(tk, Advance("pending", PendingQuery(tk.limit), activePurchases))
    /\ UNCHANGED <<ledger, isRunning, activePurchases, isCancelled, scraperVars>>

\* a cron tick of retryFailedPurchases up to the issue of its find()
RetryStart ==
    /\ isRunning
    /\ TaskCount < MaxTasks
    /\ tasks' = Spawn([kind |-> "retry", pc |-> "find", docs |-> <<>>, limit |-> 0])
    /\ UNCHANGED <<ledger, isRunning, activePurchases, isCancelled, scraperVars>>

\* the find() of retryFailedPurchases and the start of its loop
RetryFind(tk) ==
    /\ tk.kind = "retry" /\ tk.pc = "find"
    /\ tasks' = Replace(tk, Advance("retry", RetryQuery, activePurchases))
    /\ UNCHANGED <<ledger, isRunning, activePurchases, isCancelled, scraperVars>>

\* processPurchase: the save() of status processing and lastAttempt, then
\* activePurchases.set and the call of executePurchase
SaveProcessing(tk) ==
    /\ tk.pc = "save"
    /\ LET d == Head(tk.docs) IN
        /\ ledger' = [ledger EXCEPT ![d.id] = MarkProcessing(@)]
        /\ activePurchases' = activePurchases \cup {d.id}
        /\ tasks' = Replace(tk, [tk EXCEPT !.pc = "exec"])
    /\ UNCHANGED <<isRunning, isCancelled, scraperVars>>

\* executePurchase can report success unless it runs through the cancellation
\* checkpoints of a purchaser whose isCancelled flag is set
CanSucceed(w) == ~(w \in CheckpointPurchasers /\ isCancelled[w])

\* executePurchase returns (or the card lookup before it throws): the save()
\* of handlePurchaseSuccess or of handlePurchaseError
ExecDone(tk, ok) ==
    /\ tk.pc = "exec"
    /\ LET d == [Head(tk.docs) EXCEPT !.st = "processing"] IN
        /\ ok => CanSucceed(ledger[d.id].website)
        /\ ~ok => Len(ledger[d.id].errors) < MaxErrors
        /\ ledger' = IF ok THEN HandlePurchaseSuccess(d) ELSE HandlePurchaseError(d)
        /\ tasks' = Replace(tk, [tk EXCEPT !.pc = "finally"])
    /\ UNCHANGED <<isRunning, activePurchases, isCancelled, scraperVars>>

\* the finally of processPurchase, and the start of the next loop iteration
Finally(tk) ==
    /\ tk.pc = "finally"
    /\ activePurchases' = activePurchases \ {Head(tk.docs).id}
    /\ tasks' = Replace(tk, Advance(tk.kind, Tail(tk.docs), activePurchases'))
    /\ UNCHANGED <<ledger, isRunning, isCancelled, scraperVars>>

\* processPendingPurchases, catch of the loop body: the retailer has no
\* purchaser, handlePurchaseError runs on the copy that is still pending
ErrSave(tk) ==
    /\ tk.pc = "errsave"
    /\ LET d == Head(tk.docs) IN
        /\ Len(ledger[d.id].errors) < MaxErrors
        /\ ledger' = HandlePurchaseError(d)
        /\ tasks' = Replace(tk, Advance(tk.kind, Tail(tk.docs), activePurchases))
    /\ UNCHANGED <<isRunning, activePurchases, isCancelled, scraperVars>>

\* the mail transport starts or stops failing
MailToggle ==
    /\ emailDown' = ~emailDown
    /\ UNCHANGED <<ledger, isRunning, activePurchases, isCancelled, tasks,
                   results, emitted, botVars, schedVars, priority>>

\* cancelPurchase (kind "cancel") or PATCH /:id/cancel (kind "route"):
\* the findById / findOne
CancelRead(i, via) ==
    /\ TaskCount < MaxTasks
    /\ tasks' = Spawn([kind |-> via, pc |-> "check", docs |-> <<Doc(i)>>, limit |-> 0])
    /\ UNCHANGED <<ledger, isRunning, activePurchases, isCancelled, scraperVars>>

\* the status check on the copy read: success and cancelled are refused
CancelRefused(tk) ==
    /\ tk.pc = "check"
    /\ Head(tk.docs).st \in {"success", "cancelled"}
    /\ tasks' = Replace(tk, NoTask)
    /\ UNCHANGED <<ledger, isRunning, activePurchases, isCancelled, scraperVars>>

\* the save() of status cancelled; cancelPurchase then cancels the purchaser
\* of an active purchase and drops the map entry
CancelSave(tk) ==
    /\ tk.pc = "check"
    /\ LET i == Head(tk.docs).id IN
        /\ Head(tk.docs).st \notin {"success", "cancelled"}
        /\ ledger' = [ledger EXCEPT ![i] = [@ EXCEPT !.status = "cancelled"]]
        /\ IF tk.kind = "cancel" /\ i \in activePurchases
           THEN /\ isCancelled' = [isCancelled EXCEPT ![ledger[i].website] = TRUE]
                /\ activePurchases' = activePurchases \ {i}
           ELSE UNCHANGED <<isCancelled, activePurchases>>
        /\ tasks' = Replace(tk, NoTask)
    /\ UNCHANGED <<isRunning, scraperVars>>

\* ScraperManager.triggerAutoPurchase: a pending Purchase at the scraped price
TriggerAutoPurchase(s, w, price) == Append(ledger, NewPurchase(s, w, price))

\* the price test of processScrapingResult (a price of 0 is falsy)
PriceMeetsTarget(s, price, inStock) ==
    price # 0 /\ price <= TargetPrice(s) /\ inStock

\* the line processScrapingResult logs for the result
ScrapedLog(inStock) == IF inStock THEN {"In Stock"} ELSE {"Out of Stock"}

\* processScrapingResult with a cache write that merges the result into the
\* entry the key already has instead of replacing it
DecideMerging(s, w, price, inStock) ==
    /\ results' = [results EXCEPT ![<<s, w>>] =
                       [cached |-> TRUE, price |-> price,
                        inStock |-> IF @.cached THEN @.inStock ELSE inStock,
                        age |-> 0]]
    /\ emitted' = [by |-> "scraper", sku |-> s, website |-> w,
                   probe |-> [success |-> TRUE, price |-> price, inStock |-> inStock],
                   price |-> price, inStock |-> inStock,
                   alert |-> PriceMeetsTarget(s, price, inStock),
                   log |-> ScrapedLog(inStock)]
    /\ IF /\ PriceMeetsTarget(s, price, inStock)
          /\ AutoPurchase(s) /\ ~RequireConfirmation(s)
       THEN /\ Len(ledger) < MaxQueued
            /\ ledger' = TriggerAutoPurchase(s, w, price)
       ELSE UNCHANGED ledger

\* the body of processScrapingResult for a successful probe: the cache
\* write (timestamp: new Date()), the price alert and the auto purchase when
\* the price meets the target, the log line
Decide(s, w, price, inStock) ==
    /\ results' = [results EXCEPT ![<<s, w>>] =
                       [cached |-> TRUE, price |-> price, inStock |-> inStock,
                        age |-> 0]]
    /\ emitted' = [by |-> "scraper", sku |-> s, website |-> w,
                   probe |-> [success |-> TRUE, price |-> price, inStock |-> inStock],
                   price |-> price, inStock |-> inStock,
                   alert |-> PriceMeetsTarget(s, price, inStock),
                   log |-> ScrapedLog(inStock)]
    /\ IF /\ PriceMeetsTarget(s, price, inStock)
          /\ AutoPurchase(s) /\ ~RequireConfirmation(s)
       THEN /\ Len(ledger) < MaxQueued
            /\ ledger' = TriggerAutoPurchase(s, w, price)
       ELSE UNCHANGED ledger

\* ScraperManager.processScrapingResult, reached outside a tier tick
\* (manualScrape -> scrapeSingleProduct)
ProcessScrapingResult(s, w, price, inStock) ==
    /\ Decide(s, w, price, inStock)
    /\ UNCHANGED <<isRunning, activePurchases, isCancelled, tasks, botVars, schedVars, emailDown, priority>>

\* ---------------------------------------------------- the result cache
CacheStale == RetentionWindow + 1

\* Strings are sequences of tokens: an ObjectId in hex and a retailer name of
\* the schema's enum are one token each, neither containing "_".
IdText(s) == <<s>>
NameText(w) == <<w>>

\* the cache key `${sku._id}_${website.name}`
KeyText(k) == IdText(k[1]) \o <<"_">> \o NameText(k[2])

\* String.prototype.split('_'): the pieces between the separators
RECURSIVE Split(_)
Split(text) ==
    IF \A n \in 1..Len(text) : text[n] # "_" THEN <<text>>
    ELSE LET n == CHOOSE m \in 1..Len(text) :
                      text[m] = "_" /\ \A j \in 1..(m - 1) : text[j] # "_"
         IN <<SubSeq(text, 1, n - 1)>> \o Split(SubSeq(text, n + 1, Len(text)))

\* const [resultSkuId, resultWebsite] = key.split('_')
KeyParts(text) ==
    LET parts == Split(text)
    IN <<parts[1], IF Len(parts) >= 2 THEN parts[2] ELSE <<>>>>

\* the keys of the Map, and those getResults(skuId, websiteName) selects
CachedKeys == {k \in CacheKeys : results[k].cached}
GetResultKeys(s, w) ==
    {k \in CachedKeys : KeyParts(KeyText(k)) = <<IdText(s), NameText(w)>>}

\* ScraperManager.getResults(skuId, websiteName): the entries it returns
GetResults(s, w) == {results[k] : k \in GetResultKeys(s, w)}

\* cleanup() evicting the entries that have reached the retention window
CleanupAtWindow ==
    /\ results' = [k \in CacheKeys |->
                      IF results[k].cached /\ results[k].age >= RetentionWindow
                      THEN NoResult ELSE results[k]]
    /\ emitted' = [NoEmit EXCEPT !.by = "cleanup"]
    /\ UNCHANGED <<ledger, isRunning, activePurchases, isCancelled, tasks,
                   botVars, schedVars, emailDown, priority>>

\* ScraperManager.cleanup(): deletes every entry whose timestamp is more than
\* the retention window old, and logs that it ran
Cleanup ==
    /\ results' = [k \in CacheKeys |->
                      IF results[k].cached /\ results[k].age > RetentionWindow
                      THEN NoResult ELSE results[k]]
    /\ emitted' = [NoEmit EXCEPT !.by = "cleanup"]
    /\ UNCHANGED <<ledger, isRunning, activePurchases, isCancelled, tasks,
                   botVars, schedVars, emailDown, priority>>

\* one unit of the cache clock passes
CacheClock ==
    /\ \E k \in CachedKeys : results[k].age < CacheStale
    /\ results' = [k \in CacheKeys |->
                      IF results[k].cached /\ results[k].age < CacheStale
                      THEN [results[k] EXCEPT !.age = @ + 1] ELSE results[k]]
    /\ UNCHANGED <<ledger, isRunning, activePurchases, isCancelled, tasks,
                   emitted, botVars, schedVars, emailDown, priority>>

\* ------------------------------------------------------ ScraperManager
\* the (item, retailer) pairs scrapeByPriority probes for a tier
Pairs(t) == {k \in CacheKeys : priority[k[1]] = t}

ScrapeCount == BagCardinality(scrapes)
Scraping == BagToSet(scrapes)

\* scrapeByPriority up to the issue of SKU.find: returns at once when stopped
ScrapeByPriority(t) ==
    IF scraperIsRunning
    THEN scrapes (+) SetToBag({[tier |-> t, pc |-> "find", all |-> {}, pending |-> {}, navigated |-> {},
                              ok |-> {}]})
    ELSE scrapes

\* start() as it would be without the isRunning guard of its first line
ScraperStartUnguarded ==
    /\ initialTimers < MaxTimers /\ startCalls < MaxStarts
    /\ startCalls' = startCalls + 1
    /\ scraperIsRunning' = TRUE
    /\ cronJobs' = Jobs
    /\ scheduled' = [j \in Jobs |-> scheduled[j] + 1]
    /\ initialTimers' = initialTimers + 1
    /\ UNCHANGED <<ledger, isRunning, activePurchases, isCancelled, tasks,
                   results, emitted, botVars, emailDown, priority, scrapes, browser, page, report>>

\* ScraperManager.start(): a no-op when running; otherwise it schedules the
\* four cron jobs and the initial tick
ScraperStart ==
    IF scraperIsRunning
    THEN /\ startCalls < MaxStarts
         /\ startCalls' = startCalls + 1
         /\ UNCHANGED <<ledger, isRunning, activePurchases, isCancelled, tasks,
                        results, emitted, botVars, emailDown, priority, scraperIsRunning, cronJobs,
                        scheduled, initialTimers, scrapes, browser, page, report>>
    ELSE /\ initialTimers < MaxTimers /\ startCalls < MaxStarts
         /\ startCalls' = startCalls + 1
         /\ scraperIsRunning' = TRUE
         /\ cronJobs' = Jobs
         /\ scheduled' = [j \in Jobs |-> scheduled[j] + 1]
         /\ initialTimers' = initialTimers + 1
         /\ UNCHANGED <<ledger, isRunning, activePurchases, isCancelled, tasks,
                        results, emitted, botVars, emailDown, priority, scrapes, browser, page, report>>

\* ScraperManager.stop(): destroys the jobs it holds and closes the browser
\* of every scraper that has one
ScraperStop ==
    /\ scraperIsRunning' = FALSE
    /\ scheduled' = [j \in Jobs |-> IF j \in cronJobs THEN scheduled[j] - 1
                                    ELSE scheduled[j]]
    /\ cronJobs' = {}
    /\ startCalls' = 0
    /\ browser' = [w \in Websites |-> IF browser[w] = "none" THEN "none" ELSE "closed"]
    /\ UNCHANGED <<ledger, isRunning, activePurchases, isCancelled, tasks,
                   results, emitted, botVars, emailDown, priority, initialTimers, scrapes, page, report>>

\* PUT /skus/:id: the owner moves item s to tier t
UpdateSku(s, t) ==
    /\ priority' = [priority EXCEPT ![s] = t]
    /\ UNCHANGED <<ledger, isRunning, activePurchases, isCancelled, tasks,
                   results, emitted, botVars, schedVars, emailDown>>

\* a cron job of tier t fires
CronFires(t) ==
    /\ scheduled[t] > 0
    /\ ScrapeCount < MaxScrapes
    /\ scrapes' = ScrapeByPriority(t)
    /\ UNCHANGED <<ledger, isRunning, activePurchases, isCancelled, tasks,
                   results, emitted, botVars, emailDown, priority, scraperIsRunning, cronJobs,
                   scheduled, initialTimers, startCalls, browser, page, report>>

\* the setTimeout of start() fires: scrapeByPriority('high')
InitialTick ==
    /\ initialTimers > 0
    /\ ScrapeCount < MaxScrapes
    /\ initialTimers' = initialTimers - 1
    /\ scrapes' = ScrapeByPriority("high")
    /\ UNCHANGED <<ledger, isRunning, activePurchases, isCancelled, tasks,
                   results, emitted, botVars, emailDown, priority, scraperIsRunning, cronJobs,
                   scheduled, startCalls, browser, page, report>>

\* SKU.find returns: no SKU of the tier ends the tick, otherwise
\* scrapeSingleProduct is called for every pair before Promise.allSettled
ScrapeFind(tk) ==
    /\ tk.pc = "find"
    /\ scrapes' = IF Pairs(tk.tier) = {}
                  THEN scrapes (-) SetToBag({tk})
                  ELSE (scrapes (-) SetToBag({tk})) (+)
                       SetToBag({[tk EXCEPT !.pc = "probe", !.all = Pairs(tk.tier),
                                              !.pending = Pairs(tk.tier)]})
    /\ UNCHANGED <<ledger, isRunning, activePurchases, isCancelled, tasks,
                   results, emitted, botVars, emailDown, priority, scraperIsRunning, cronJobs,
                   scheduled, initialTimers, startCalls, browser, page, report>>

\* SKU.find rejects in a scrapeByPriority whose body has no try/catch: the
\* rejection of the promise nobody awaits ends the process, and the
\* scheduler with it
ScrapeFindThrowsUncaught(tk) ==
    /\ tk.pc = "find"
    /\ scrapes' = EmptyBag
    /\ report' = [NoReport EXCEPT !.tier = tk.tier, !.error = TRUE]
    /\ scraperIsRunning' = FALSE
    /\ cronJobs' = {}
    /\ scheduled' = [j \in Jobs |-> 0]
    /\ initialTimers' = 0
    /\ UNCHANGED <<ledger, isRunning, activePurchases, isCancelled, tasks,
                   results, emitted, botVars, emailDown, priority,
                   startCalls, browser, page>>

\* SKU.find rejects: the catch of scrapeByPriority logs the error and the
\* tick ends without a probe
ScrapeFindThrows(tk) ==
    /\ tk.pc = "find"
    /\ scrapes' = scrapes (-) SetToBag({tk})
    /\ report' = [NoReport EXCEPT !.tier = tk.tier, !.error = TRUE]
    /\ UNCHANGED <<ledger, isRunning, activePurchases, isCancelled, tasks,
                   results, emitted, botVars, emailDown, priority, scraperIsRunning, cronJobs,
                   scheduled, initialTimers, startCalls, browser, page>>

\* scraper.scrapeProduct for pair k up to its page.goto: a scraper without
\* a browser launches one (with its one page), and the scraper's page is sent
\* to the product page of the pair's item
ScrapeNavigate(tk, k) ==
    /\ tk.pc = "probe" /\ k \in tk.pending \ tk.navigated
    /\ k[2] \in WorkingScrapers
    /\ browser[k[2]] # "closed"
    /\ browser' = [browser EXCEPT ![k[2]] = "open"]
    /\ page' = [page EXCEPT ![k[2]] = k[1]]
    /\ scrapes' = (scrapes (-) SetToBag({tk})) (+)
                  SetToBag({[tk EXCEPT !.navigated = @ \cup {k}]})
    /\ UNCHANGED <<ledger, isRunning, activePurchases, isCancelled, tasks,
                   results, emitted, botVars, emailDown, priority, scraperIsRunning, cronJobs,
                   scheduled, initialTimers, startCalls, report>>

\* how the promise of scrapeSingleProduct settles: the method returns the
\* result of a successful probe and of a failed one, and returns from its
\* catch, so the promise is fulfilled either way
Settled(probeOk) == IF probeOk THEN "fulfilled" ELSE "fulfilled"

\* the counts scrapeByPriority logs after Promise.allSettled: the fulfilled
\* and the rejected promises among those of the pairs in probed, of which the
\* pairs in ok had a successful probe
TickReport(t, pairs, probed, ok) ==
    [tier |-> t, pairs |-> pairs,
     succeeded |-> Cardinality({k \in probed : Settled(k \in ok) = "fulfilled"}),
     failed |-> Cardinality({k \in probed : Settled(k \in ok) = "rejected"}),
     probed |-> probed, ok |-> ok, error |-> FALSE]

\* scrapeSingleProduct in a tick that joins its probes fail-fast: the first
\* failed probe ends the tick
ScrapeSingleProductFailFast(tk, k, probe) ==
    /\ tk.pc = "probe" /\ k \in tk.pending
    /\ probe \in ProbesOf(k[2])
    /\ probe.success => k \in tk.navigated /\ browser[k[2]] # "closed"
    /\ IF probe.success
       THEN Decide(k[1], k[2], probe.price, probe.inStock)
       ELSE UNCHANGED <<ledger, results, emitted>>
    /\ LET ok == IF probe.success THEN tk.ok \cup {k} ELSE tk.ok IN
        IF tk.pending = {k} \/ ~probe.success
        THEN /\ scrapes' = scrapes (-) SetToBag({tk})
             /\ report' = TickReport(tk.tier, tk.all, tk.all \ (tk.pending \ {k}), ok)
        ELSE /\ scrapes' = (scrapes (-) SetToBag({tk})) (+)
                           SetToBag({[tk EXCEPT !.pending = @ \ {k}, !.ok = ok]})
             /\ UNCHANGED report
    /\ UNCHANGED <<isRunning, activePurchases, isCancelled, tasks, botVars, emailDown, priority,
                   scraperIsRunning, cronJobs, scheduled, initialTimers, startCalls,
                   browser, page>>

\* scrapeSingleProduct passing every result on to processScrapingResult,
\* without the test of result.success: a failed probe overwrites the entry
\* of its key with its empty result
ScrapeSingleProductCachesFailure(tk, k, probe) ==
    /\ tk.pc = "probe" /\ k \in tk.pending
    /\ probe \in ProbesOf(k[2])
    /\ probe.success => k \in tk.navigated /\ browser[k[2]] # "closed"
    /\ IF probe.success
       THEN Decide(k[1], k[2], probe.price, probe.inStock)
       ELSE /\ results' = [results EXCEPT ![k] =
                               [cached |-> TRUE, price |-> probe.price,
                                inStock |-> probe.inStock, age |-> 0]]
            /\ UNCHANGED <<ledger, emitted>>
    /\ LET ok == IF probe.success THEN tk.ok \cup {k} ELSE tk.ok IN
        IF tk.pending = {k}
        THEN /\ scrapes' = scrapes (-) SetToBag({tk})
             /\ report' = TickReport(tk.tier, tk.all, tk.all \ (tk.pending \ {k}), ok)
        ELSE /\ scrapes' = (scrapes (-) SetToBag({tk})) (+)
                           SetToBag({[tk EXCEPT !.pending = @ \ {k}, !.ok = ok]})
             /\ UNCHANGED report
    /\ UNCHANGED <<isRunning, activePurchases, isCancelled, tasks, botVars, emailDown, priority,
                   scraperIsRunning, cronJobs, scheduled, initialTimers, startCalls,
                   browser, page>>

\* scrapeSingleProduct for pair k comes back with the probe's result: only a
\* probe that has navigated on a browser still open can succeed, its price is
\* read from what the scraper's page shows, and it goes through
\* processScrapingResult; with its last pair the tick logs its counts and ends
ScrapeSingleProduct(tk, k, probe) ==
    /\ tk.pc = "probe" /\ k \in tk.pending
    /\ probe \in ProbesOf(k[2])
    /\ probe.success => k \in tk.navigated /\ browser[k[2]] # "closed"
    /\ IF probe.success
       THEN Decide(k[1], k[2], probe.price, probe.inStock)
       ELSE UNCHANGED <<ledger, results, emitted>>
    /\ LET ok == IF probe.success THEN tk.ok \cup {k} ELSE tk.ok IN
        IF tk.pending = {k}
        THEN /\ scrapes' = scrapes (-) SetToBag({tk})
             /\ report' = TickReport(tk.tier, tk.all, tk.all \ (tk.pending \ {k}), ok)
        ELSE /\ scrapes' = (scrapes (-) SetToBag({tk})) (+)
                           SetToBag({[tk EXCEPT !.pending = @ \ {k}, !.ok = ok]})
             /\ UNCHANGED report
    /\ UNCHANGED <<isRunning, activePurchases, isCancelled, tasks, botVars, emailDown, priority,
                   scraperIsRunning, cronJobs, scheduled, initialTimers, startCalls,
                   browser, page>>

\* what triggerAutoPurchase logs from its catch
SaveError == "Error triggering auto purchase"

\* scrapeSingleProduct for pair k whose purchase.save() rejects: the cache
\* write and the alert are done, triggerAutoPurchase catches the rejection
\* and logs it, no Purchase is queued, and the tick goes on as after any
\* successful probe
ScrapeSingleProductSaveFails(tk, k, probe) ==
    /\ tk.pc = "probe" /\ k \in tk.pending
    /\ probe \in ProbesOf(k[2])
    /\ probe.success /\ k \in tk.navigated /\ browser[k[2]] # "closed"
    /\ PriceMeetsTarget(k[1], probe.price, probe.inStock)
    /\ AutoPurchase(k[1]) /\ ~RequireConfirmation(k[1])
    /\ results' = [results EXCEPT ![k] =
                       [cached |-> TRUE, price |-> probe.price,
                        inStock |-> probe.inStock, age |-> 0]]
    /\ emitted' = [by |-> "scraper", sku |-> k[1], website |-> k[2],
                   probe |-> probe, price |-> probe.price, inStock |-> probe.inStock,
                   alert |-> TRUE,
                   log |-> ScrapedLog(probe.inStock) \cup {SaveError}]
    /\ LET ok == tk.ok \cup {k} IN
        IF tk.pending = {k}
        THEN /\ scrapes' = scrapes (-) SetToBag({tk})
             /\ report' = TickReport(tk.tier, tk.all, tk.all \ (tk.pending \ {k}), ok)
        ELSE /\ scrapes' = (scrapes (-) SetToBag({tk})) (+)
                           SetToBag({[tk EXCEPT !.pending = @ \ {k}, !.ok = ok]})
             /\ UNCHANGED report
    /\ UNCHANGED <<ledger, isRunning, activePurchases, isCancelled, tasks, botVars,
                   emailDown, priority, scraperIsRunning, cronJobs, scheduled,
                   initialTimers, startCalls, browser, page>>

\* ------------------------------------------------- AutomatedPurchaseBot
\* simulateMarketPrice / simulateReasonablePrice: a price from floor% of the
\* target up to the target, or from the target up to the SKU's maxPrice
SimulatedPrices(s, floor) ==
    {p \in 0..MaxPrice :
        \/ floor * TargetPrice(s) <= 100 * p /\ p <= TargetPrice(s)
        \/ TargetPrice(s) <= p /\ p <= SkuMaxPrice(s)}

\* LiveTestingSystem.scrapeRealPrice: the probe's result, or one of the
\* fallback simulations (success: true, simulated: true) when the probe failed
ScrapeRealPrice(s, probe) ==
    IF probe.success
    THEN {[success |-> TRUE, price |-> probe.price, inStock |-> probe.inStock,
           simulated |-> FALSE]}
    ELSE {[success |-> TRUE, price |-> p, inStock |-> b, simulated |-> TRUE] :
             p \in SimulatedPrices(s, FallbackDealFloor), b \in BOOLEAN}

\* AutomatedPurchaseBot.simulateMarketData: the data it can return
SimulateMarketData(s) ==
    {[price |-> p, inStock |-> b, realData |-> FALSE, simulated |-> TRUE] :
        p \in SimulatedPrices(s, BotDealFloor), b \in BOOLEAN}

\* AutomatedPurchaseBot.getMarketPrice: the market data it can return
GetMarketPrice(s, probe) ==
    IF realScrapingEnabled
    THEN UNION {IF r.success /\ r.price # 0
                THEN {[price |-> r.price, inStock |-> r.inStock, realData |-> TRUE,
                       simulated |-> r.simulated]}
                ELSE SimulateMarketData(s) : r \in ScrapeRealPrice(s, probe)}
    ELSE SimulateMarketData(s)

\* the record executeAutomatedPurchase adds to testStorage; simulated is a
\* history field: whether the price came from a simulation
BotPurchase(s, w, md) ==
    [sku |-> s, website |-> w, price |-> md.price, status |-> "success",
     realScraping |-> md.realData, simulated |-> md.simulated]

\* the cooldown test on purchaseAttempts
Cooling(k) == purchaseAttempts[k].set /\ purchaseAttempts[k].since < BotCooldown

\* the reasons checkSKUForPurchase logs when it skips
SkipReasons(s, md) ==
    (IF md.price > TargetPrice(s) THEN {"price > target"} ELSE {}) \cup
    (IF ~md.inStock THEN {"out of stock"} ELSE {})

\* what one website of checkSKUForPurchase logs: the market data and the
\* outcome
BotEmit(s, w, probe, md, log) ==
    [by |-> "bot", sku |-> s, website |-> w,
     probe |-> IF realScrapingEnabled THEN probe ELSE FailedProbe,
     price |-> md.price, inStock |-> md.inStock, alert |-> FALSE, log |-> log]

\* AutomatedPurchaseBot.start
BotStart ==
    /\ ~botRunning
    /\ botRunning' = TRUE
    /\ realScrapingEnabled' \in BOOLEAN
    /\ UNCHANGED <<ledger, isRunning, activePurchases, isCancelled, tasks,
                   results, emitted, testPurchases, purchaseAttempts, checks, schedVars,
                   emailDown, priority>>

\* AutomatedPurchaseBot.stop
BotStop ==
    /\ botRunning
    /\ botRunning' = FALSE
    /\ UNCHANGED <<ledger, isRunning, activePurchases, isCancelled, tasks,
                   results, emitted, realScrapingEnabled, testPurchases,
                   purchaseAttempts, checks, schedVars, emailDown, priority>>

\* AutomatedPurchaseBot.checkSKUForPurchase, one website of its loop, run
\* with no other check in flight
CheckSKUForPurchase(s, w, probe, md) ==
    /\ botRunning
    /\ md \in GetMarketPrice(s, probe)
    /\ IF md.price <= TargetPrice(s) /\ md.inStock
        THEN IF Cooling(<<s, w>>)
             THEN /\ emitted' = BotEmit(s, w, probe, md, {})
                  /\ UNCHANGED <<testPurchases, purchaseAttempts>>
             ELSE /\ Len(testPurchases) < MaxBotPurchases
                  /\ testPurchases' = Append(testPurchases, BotPurchase(s, w, md))
                  /\ purchaseAttempts' =
                         [purchaseAttempts EXCEPT ![<<s, w>>] = [set |-> TRUE, since |-> 0]]
                  /\ emitted' = BotEmit(s, w, probe, md, {"purchase executed"})
        ELSE /\ emitted' = BotEmit(s, w, probe, md, SkipReasons(s, md))
             /\ UNCHANGED <<testPurchases, purchaseAttempts>>
    /\ UNCHANGED <<ledger, isRunning, activePurchases, isCancelled, tasks,
                   results, botRunning, realScrapingEnabled, checks, schedVars,
                   emailDown, priority>>

\* the cron jobs of the bot whose ticks can fall on the same minute
CheckTypes == {"quick", "deep"}

\* the order in which a check goes through the items and their websites
CheckOrder ==
    <<<<"sku1", "walmart">>, <<"sku1", "target">>,
      <<"sku2", "walmart">>, <<"sku2", "target">>>>

\* a check moves on to the next website, or returns after the last
NextWebsite(c) ==
    IF Len(c.todo) = 1 THEN checks \ {c}
    ELSE (checks \ {c}) \cup {[c EXCEPT !.todo = Tail(@), !.pc = "price"]}

\* a cron job of the bot fires: checkForPurchaseOpportunities up to the
\* first await getMarketPrice; returns at once when the bot is stopped
CheckForPurchaseOpportunities(type) ==
    /\ botRunning
    /\ \A c \in checks : c.type # type
    /\ checks' = checks \cup {[type |-> type, todo |-> CheckOrder, pc |-> "price"]}
    /\ UNCHANGED <<ledger, isRunning, activePurchases, isCancelled, tasks,
                   results, emitted, botRunning, realScrapingEnabled, testPurchases,
                   purchaseAttempts, schedVars, emailDown, priority>>

\* checkSKUForPurchase of check c from the return of getMarketPrice to its
\* next await: the price test, the cooldown test, and executeAutomatedPurchase,
\* which adds the record before its promise is awaited
CheckPrice(c, probe, md) ==
    /\ c \in checks /\ c.pc = "price"
    /\ LET k == Head(c.todo) IN
        /\ probe \in ProbesOf(k[2])
        /\ md \in GetMarketPrice(k[1], probe)
        /\ IF md.price <= TargetPrice(k[1]) /\ md.inStock
           THEN IF Cooling(k)
                THEN /\ emitted' = BotEmit(k[1], k[2], probe, md, {})
                     /\ checks' = NextWebsite(c)
                     /\ UNCHANGED testPurchases
                ELSE /\ Len(testPurchases) < MaxBotPurchases
                     /\ testPurchases' = Append(testPurchases, BotPurchase(k[1], k[2], md))
                     /\ emitted' = BotEmit(k[1], k[2], probe, md, {"purchase executed"})
                     /\ checks' = (checks \ {c}) \cup {[c EXCEPT !.pc = "set"]}
           ELSE /\ emitted' = BotEmit(k[1], k[2], probe, md, SkipReasons(k[1], md))
                /\ checks' = NextWebsite(c)
                /\ UNCHANGED testPurchases
    /\ UNCHANGED <<ledger, isRunning, activePurchases, isCancelled, tasks,
                   results, botRunning, realScrapingEnabled, purchaseAttempts,
                   schedVars, emailDown, priority>>

\* checkSKUForPurchase of check c after await executeAutomatedPurchase:
\* purchaseAttempts.set(attemptKey, Date.now()), then the next website
CheckSetAttempt(c) ==
    /\ c \in checks /\ c.pc = "set"
    /\ purchaseAttempts' =
           [purchaseAttempts EXCEPT ![Head(c.todo)] = [set |-> TRUE, since |-> 0]]
    /\ checks' = NextWebsite(c)
    /\ UNCHANGED <<ledger, isRunning, activePurchases, isCancelled, tasks,
                   results, emitted, botRunning, realScrapingEnabled, testPurchases,
                   schedVars, emailDown, priority>>

\* one unit of the bot's clock passes
BotClock ==
    /\ \E k \in BotKeys : Cooling(k)
    /\ purchaseAttempts' =
           [k \in BotKeys |-> IF Cooling(k)
                              THEN [purchaseAttempts[k] EXCEPT !.since = @ + 1]
                              ELSE purchaseAttempts[k]]
    /\ UNCHANGED <<ledger, isRunning, activePurchases, isCancelled, tasks,
                   results, emitted, botRunning, realScrapingEnabled, testPurchases,
                   checks, schedVars, emailDown, priority>>

\* one clock unit passes
Tick ==
    /\ \E i \in Ids : ledger[i].sinceAttempt < Stale
    /\ ledger' = [i \in Ids |-> [ledger[i] EXCEPT !.sinceAttempt =
                                    IF @ < Stale THEN @ + 1 ELSE @]]
    /\ UNCHANGED <<isRunning, activePurchases, isCancelled, tasks, scraperVars>>

Next ==
    \/ Start
    \/ Stop
    \/ \E s \in Skus, w \in Websites : ManualPurchase(s, w)
    \/ PendingTick(MaxTasks)
    \/ RetryStart
    \/ \E tk \in Running : PendingFind(tk)
    \/ \E tk \in Running : RetryFind(tk)
    \/ \E tk \in Running : SaveProcessing(tk)
    \/ \E tk \in Running, ok \in BOOLEAN : ExecDone(tk, ok)
    \/ \E tk \in Running : Finally(tk)
    \/ \E tk \in Running : ErrSave(tk)
    \/ \E i \in Ids, via \in {"cancel", "route"} : CancelRead(i, via)
    \/ \E tk \in Running : CancelRefused(tk)
    \/ \E tk \in Running : CancelSave(tk)
    \/ Tick

Spec == Init /\ [][Next]_vars

\* The manager constructed over a ledger that already holds a backlog of
\* pending purchases at bestbuy, whose executePurchase always reports success;
\* only the 30-second task, stop() and start() are exercised.
InitBacklog ==
    /\ ledger = [i \in 1..MaxBacklog |-> NewPurchase("sku1", "bestbuy", TargetPrice("sku1"))]
    /\ isRunning = FALSE
    /\ activePurchases = {}
    /\ isCancelled = [w \in Purchasers |-> FALSE]
    /\ tasks = EmptyBag
    /\ ScraperInit

NextBacklog ==
    \/ Start
    \/ Stop
    \/ PendingTick(MaxTicks)
    \/ \E tk \in Running : PendingFind(tk)
    \/ \E tk \in Running : SaveProcessing(tk)
    \/ \E tk \in Running : ExecDone(tk, TRUE)
    \/ \E tk \in Running : Finally(tk)

SpecBacklog == InitBacklog /\ [][NextBacklog]_vars

\* The executor with a retailer that fails on every call: as Next, with no
\* execution reporting success.
NextAllFail ==
    \/ Start
    \/ Stop
    \/ \E s \in Skus, w \in Websites : ManualPurchase(s, w)
    \/ PendingTick(MaxTasks)
    \/ RetryStart
    \/ \E tk \in Running : PendingFind(tk)
    \/ \E tk \in Running : RetryFind(tk)
    \/ \E tk \in Running : SaveProcessing(tk)
    \/ \E tk \in Running : ExecDone(tk, FALSE)
    \/ \E tk \in Running : Finally(tk)
    \/ \E tk \in Running : ErrSave(tk)
    \/ \E i \in Ids, via \in {"cancel", "route"} : CancelRead(i, via)
    \/ \E tk \in Running : CancelRefused(tk)
    \/ \E tk \in Running : CancelSave(tk)
    \/ Tick

SpecAllFail == Init /\ [][NextAllFail]_vars

\* The scraper's results arriving while the executor is stopped.
NextScraper ==
    \E s \in Skus, w \in WorkingScrapers, price \in 0..MaxPrice, inStock \in BOOLEAN :
        ProcessScrapingResult(s, w, price, inStock)

SpecScraper == Init /\ [][NextScraper]_vars

\* The 30-second task alone, its ticks one after another, over purchases the
\* scraper queues for one item at one retailer while the task runs.
NextFifo ==
    \/ Start
    \/ ProcessScrapingResult("sku1", "target", TargetPrice("sku1"), TRUE)
    \/ PendingTick(MaxFifoTicks)
    \/ \E tk \in Running : PendingFind(tk)
    \/ \E tk \in Running : SaveProcessing(tk)
    \/ \E tk \in Running, ok \in BOOLEAN : ExecDone(tk, ok)
    \/ \E tk \in Running : Finally(tk)

SpecFifo == Init /\ [][NextFifo]_vars

\* The manager started and kept running over one pending Purchase whose
\* attemptInfo.maxAttempts is any value the schema admits; both periodic tasks
\* fire again and again, one invocation at a time, and every call returns.
InitLive ==
    /\ \E m \in 1..MaxCeiling, w \in Websites :
           ledger = <<[NewPurchase("sku1", w, TargetPrice("sku1")) EXCEPT !.maxAttempts = m]>>
    /\ isRunning = TRUE
    /\ activePurchases = {}
    /\ isCancelled = [w \in Purchasers |-> FALSE]
    /\ tasks = EmptyBag
    /\ ScraperInit

RetryTick == TaskCount < MaxFifoTicks /\ RetryStart
Step(tk) ==
    \/ PendingFind(tk) \/ RetryFind(tk) \/ SaveProcessing(tk)
    \/ Finally(tk) \/ ErrSave(tk)

NextLive ==
    \/ PendingTick(MaxFifoTicks)
    \/ RetryTick
    \/ \E tk \in Running : Step(tk)
    \/ \E tk \in Running, ok \in BOOLEAN : ExecDone(tk, ok)
    \/ Tick

SpecLive ==
    /\ InitLive /\ [][NextLive]_vars
    /\ SF_vars(PendingTick(MaxFifoTicks))
    /\ SF_vars(RetryTick)
    /\ WF_vars(\E tk \in Running : Step(tk))
    /\ WF_vars(\E tk \in Running, ok \in BOOLEAN : ExecDone(tk, ok))
    /\ WF_vars(Tick)

\* The executor over one Purchase at target whose owner has notifications
\* on, its ticks one invocation at a time, with a mail transport that fails
\* at times.
NextNotify ==
    \/ Start
    \/ ManualPurchase("sku1", "target")
    \/ PendingTick(MaxFifoTicks)
    \/ RetryTick
    \/ \E tk \in Running : Step(tk)
    \/ \E tk \in Running, ok \in BOOLEAN : ExecDone(tk, ok)
    \/ Tick
    \/ MailToggle

SpecNotify == Init /\ [][NextNotify]_vars

\* The executor started and stopped over purchases the scraper queues for
\* one item at target, its ticks one after another, with cancelPurchase
\* called on the purchases.
NextCancel ==
    \/ Start
    \/ Stop
    \/ ProcessScrapingResult("sku1", "target", TargetPrice("sku1"), TRUE)
    \/ PendingTick(MaxFifoTicks)
    \/ \E tk \in Running : PendingFind(tk)
    \/ \E tk \in Running : SaveProcessing(tk)
    \/ \E tk \in Running, ok \in BOOLEAN : ExecDone(tk, ok)
    \/ \E tk \in Running : Finally(tk)
    \/ \E i \in Ids : CancelRead(i, "cancel")
    \/ \E tk \in Running : CancelRefused(tk)
    \/ \E tk \in Running : CancelSave(tk)

SpecCancel == Init /\ [][NextCancel]_vars

\* The bot started and checking its items.
NextBot ==
    \/ BotStart
    \/ BotStop
    \/ \E s \in Skus, w \in Websites :
           \E probe \in ProbesOf(w) :
               \E md \in GetMarketPrice(s, probe) :
                   CheckSKUForPurchase(s, w, probe, md)
    \/ BotClock

SpecBot == Init /\ [][NextBot]_vars

\* the probe results a tier tick or a check of the bot is run on: a failure, or an in-stock price
\* at the target
TickProbes ==
    {FailedProbe, [success |-> TRUE, price |-> TargetPrice("sku1"), inStock |-> TRUE]}

\* The bot's checks as its cron jobs start them, within one cooldown window
\* (the bot's clock does not advance).
NextBotChecks ==
    \/ BotStart
    \/ BotStop
    \/ \E type \in CheckTypes : CheckForPurchaseOpportunities(type)
    \/ \E c \in checks :
           \E probe \in TickProbes :
               \E md \in GetMarketPrice(Head(c.todo)[1], probe) :
                   CheckPrice(c, probe, md)
    \/ \E c \in checks : CheckSetAttempt(c)

SpecBotChecks == Init /\ [][NextBotChecks]_vars

\* The scheduler: start(), stop(), the cron jobs and the initial tick, and
\* the tier ticks they start.
NextSchedule ==
    \/ ScraperStart
    \/ ScraperStop
    \/ \E t \in Tiers : CronFires(t)
    \/ InitialTick
    \/ \E tk \in Scraping : ScrapeFind(tk)
    \/ \E tk \in Scraping : ScrapeFindThrows(tk)
    \/ \E tk \in Scraping, k \in CacheKeys : ScrapeNavigate(tk, k)
    \/ \E tk \in Scraping, k \in CacheKeys, probe \in TickProbes :
           ScrapeSingleProduct(tk, k, probe)
    \/ \E tk \in Scraping, k \in CacheKeys, probe \in TickProbes :
           ScrapeSingleProductSaveFails(tk, k, probe)

SpecSchedule == Init /\ [][NextSchedule]_vars

\* The cache: results written by processScrapingResult, ageing, evicted by
\* cleanup().
NextCache ==
    \/ \E s \in Skus, w \in WorkingScrapers, price \in 0..MaxPrice, inStock \in BOOLEAN :
           ProcessScrapingResult(s, w, price, inStock)
    \/ CacheClock
    \/ Cleanup

SpecCache == Init /\ [][NextCache]_vars

\* a cron job fires while no tier tick is in flight
CronFiresAlone(t) == ScrapeCount = 0 /\ CronFires(t)

\* The tier ticks one at a time, over items their owner moves to the high
\* tier.
NextProbe ==
    \/ ScraperStart
    \/ \E s \in Skus : UpdateSku(s, "high")
    \/ \E t \in Tiers : CronFiresAlone(t)
    \/ \E tk \in Scraping : ScrapeFind(tk)
    \/ \E tk \in Scraping, k \in CacheKeys : ScrapeNavigate(tk, k)
    \/ \E tk \in Scraping, k \in CacheKeys, probe \in TickProbes :
           ScrapeSingleProduct(tk, k, probe)

SpecProbe == Init /\ [][NextProbe]_vars

\* ------------------------------------------------------------ observers
\* executePurchase calls in flight for Purchase i
InFlight(i) ==
    BagCardinality([tk \in {t \in Running : t.pc = "exec" /\ Head(t.docs).id = i}
                       |-> tasks[tk]])
Executing == {i \in Ids : InFlight(i) > 0}
Processing == {i \in Ids : ledger[i].status = "processing"}
Entered(i) == ledger[i].status # "processing" /\ ledger'[i].status = "processing"

TerminalStatuses == {"success", "failed", "cancelled"}

\* the transitions of the Purchase state machine
Transitions ==
    {<<"pending", "processing">>, <<"processing", "success">>,
     <<"processing", "pending">>, <<"processing", "failed">>,
     <<"pending", "cancelled">>, <<"processing", "cancelled">>}

\* --------------------------------------------------------------- claims
\* C1: at every instant at most maxConcurrentPurchases distinct Purchases are
\* being executed, and at most that many have status processing.
C1_AtMostNProcessing ==
    /\ Cardinality(Executing) <= maxConcurrentPurchases
    /\ Cardinality(Processing) <= maxConcurrentPurchases

\* C2: for every Purchase at most one executePurchase call is in flight.
C2_OneAttemptInFlight == \A i \in Ids : InFlight(i) <= 1

\* C3: at most one Purchase that is pending or processing exists for any
\* (item, retailer).
C3_OneOpenPurchasePerPair ==
    \A s \in Skus, w \in Websites :
        Cardinality({i \in Ids : /\ ledger[i].sku = s /\ ledger[i].website = w
                                 /\ ledger[i].status \in {"pending", "processing"}}) <= 1

\* C4 as stated: attemptNumber never exceeds maxAttempts.
C4_AttemptWithinMax ==
    \A i \in Ids : ledger[i].attemptNumber <= ledger[i].maxAttempts

\* C4 as amended: attemptNumber never exceeds maxAttempts + 1 (the value it
\* has once the last failed attempt is recorded).
C4_AttemptWithinMaxPlusOne ==
    \A i \in Ids : ledger[i].attemptNumber <= ledger[i].maxAttempts + 1

C4_Witness ==
    \E i \in Ids : /\ ledger[i].status = "failed"
                    /\ ledger[i].attemptNumber = ledger[i].maxAttempts + 1
                    /\ Len(ledger[i].errors) = ledger[i].maxAttempts

\* C5: a Purchase that is failed is failed in every later state.
C5_FailedIsTerminal ==
    [][\A i \in Ids : ledger[i].status = "failed" => ledger'[i].status = "failed"]_vars

\* C6: a Purchase of a retailer with a purchaser whose every execution fails
\* is failed only with exactly maxAttempts error records, all of severity
\* high, one per execution, and with no further execution of it under way.
C6_FailedAfterMaxAttempts ==
    \A i \in Ids :
        ledger[i].status = "failed" /\ ledger[i].website \in Purchasers =>
            /\ Len(ledger[i].errors) = ledger[i].maxAttempts
            /\ \A k \in 1..Len(ledger[i].errors) : ledger[i].errors[k] = "high"
            /\ InFlight(i) = 0

\* C7: every status change is a transition of the state machine, and an
\* error record is added only to a Purchase that is processing.
C7_OnlyStateMachineTransitions ==
    [][\A i \in Ids :
          /\ ledger'[i].status # ledger[i].status =>
                 <<ledger[i].status, ledger'[i].status>> \in Transitions
          /\ Len(ledger'[i].errors) > Len(ledger[i].errors) =>
                 ledger[i].status = "processing"]_vars

\* C8: a Purchase that is cancelled is cancelled in every later state.
C8_CancelledIsTerminal ==
    [][\A i \in Ids :
          ledger[i].status = "cancelled" => ledger'[i].status = "cancelled"]_vars

\* C9: a Purchase that is success is success in every later state, and a
\* cancel request that read success or cancelled changes nothing.
C9_SuccessIsTerminal ==
    [][\A i \in Ids :
          ledger[i].status = "success" => ledger'[i].status = "success"]_vars

\* C10 as stated: every transition into processing increments attemptNumber
\* and stamps lastAttempt.
C10_EnteringIncrements ==
    [][\A i \in Ids :
          Entered(i) => /\ ledger'[i].attemptNumber = ledger[i].attemptNumber + 1
                        /\ ledger'[i].sinceAttempt = 0]_vars

\* C10 as amended: every transition into processing stamps lastAttempt and
\* leaves attemptNumber as it is; attemptNumber changes only together with a
\* new error record.
C10_EnteringStamps ==
    [][\A i \in Ids :
          /\ Entered(i) => /\ ledger'[i].attemptNumber = ledger[i].attemptNumber
                            /\ ledger'[i].sinceAttempt = 0
          /\ ledger'[i].attemptNumber # ledger[i].attemptNumber =>
                 Len(ledger'[i].errors) = Len(ledger[i].errors) + 1]_vars

C10_Witness ==
    \E i \in Ids : /\ InFlight(i) = 1
                    /\ ledger[i].status = "processing"
                    /\ ledger[i].attemptNumber = 2
                    /\ ledger[i].sinceAttempt = 0
                    /\ Len(ledger[i].errors) = 1

\* C11: a Purchase that is pending after a failed attempt enters processing
\* only when at least the cooldown has passed since its lastAttempt.
C11_CooldownBeforeRetry ==
    [][\A i \in Ids :
          /\ ledger[i].status = "pending" /\ ledger[i].errors # <<>>
          /\ ledger'[i].status = "processing"
          => ledger[i].sinceAttempt >= RetryCooldown]_vars

\* C12: a Purchase that is pending after a failed attempt does not enter
\* processing while a Purchase that was queued before that failure is still
\* pending and has never been attempted.
C12_RetriesReenterBehind ==
    [][\A i, j \in Ids :
          /\ ledger[i].status = "pending" /\ ledger[i].errors # <<>>
          /\ ledger'[i].status = "processing"
          /\ j # i /\ j <= ledger[i].queuedAtFailure
          => ~(ledger[j].status = "pending" /\ ledger[j].errors = <<>>)]_vars

MayAutoBuy(s, price, inStock) ==
    /\ inStock /\ price <= TargetPrice(s)
    /\ AutoPurchase(s) /\ ~RequireConfirmation(s)

\* C14: a step that creates a purchase record automatically, in the ledger
\* (processScrapingResult) or in testStorage (checkSKUForPurchase), creates it
\* from a probe that succeeded, with the item in stock at or below its target
\* price, for an item with auto-purchase on and confirmation off.
C14_CreatedOnlyWhenAllowed ==
    [][/\ Len(ledger') > Len(ledger) =>
            LET p == ledger'[Len(ledger')] IN
                /\ results'[<<p.sku, p.website>>].cached
                /\ results'[<<p.sku, p.website>>].price = p.price
                /\ MayAutoBuy(p.sku, p.price, results'[<<p.sku, p.website>>].inStock)
       /\ Len(testPurchases') > Len(testPurchases) =>
            LET b == testPurchases'[Len(testPurchases')] IN
                /\ ~b.simulated
                /\ MayAutoBuy(b.sku, b.price, TRUE)]_vars

\* the step is a run of processScrapingResult for item s at retailer w
ScraperRan(s, w) ==
    /\ emitted'.by = "scraper" /\ emitted'.sku = s /\ emitted'.website = w
    /\ results'[<<s, w>>].cached
    /\ UNCHANGED <<isRunning, activePurchases, isCancelled, tasks, botVars, emailDown, priority>>

\* the step appends one pending Purchase of s at w for the given price
Bought(s, w, price) ==
    /\ Len(ledger') = Len(ledger) + 1
    /\ ledger'[Len(ledger')] = NewPurchase(s, w, price)

\* C15: a run of processScrapingResult on an in-stock observation with
\* 0 <= price <= targetPrice, for an item with auto-purchase on and
\* confirmation off, creates a Purchase carrying the observed price.
C15_BuyAtOrBelowTarget ==
    [][\A s \in Skus, w \in Websites :
          /\ ScraperRan(s, w)
          /\ MayAutoBuy(s, results'[<<s, w>>].price, results'[<<s, w>>].inStock)
          => Bought(s, w, results'[<<s, w>>].price)]_vars

\* C16: a decision run (processScrapingResult or checkSKUForPurchase) whose
\* probe reported the item out of stock, whatever the price, creates no
\* purchase record and logs the out-of-stock reason.
C16_OutOfStockSkips ==
    [][/\ emitted'.by # "none"
       /\ emitted'.probe.success /\ ~emitted'.probe.inStock
       => /\ ledger' = ledger
          /\ testPurchases' = testPurchases
          /\ emitted'.by = "scraper" => "Out of Stock" \in emitted'.log
          /\ emitted'.by = "bot" => "out of stock" \in emitted'.log]_vars

\* C17: a run of processScrapingResult on an in-stock observation at or below
\* the target price, for an item that requires confirmation, sends the price
\* alert and creates no Purchase (the buy case creates one, which tells the
\* two apart).
C17_WouldBuySignal ==
    [][\A s \in Skus, w \in Websites :
          /\ ScraperRan(s, w)
          /\ RequireConfirmation(s)
          /\ results'[<<s, w>>].inStock
          /\ results'[<<s, w>>].price <= TargetPrice(s)
          => emitted'.alert /\ ledger' = ledger]_vars

\* C18: ScraperManager.start() is idempotent. A start() while the scheduler
\* runs changes nothing; a start() of a stopped scheduler makes it running
\* and adds one initial tick; and whenever start() has been called since the
\* last stop(), the scheduler runs and holds exactly the four periodic jobs
\* (high, medium, low, cleanup), each scheduled once.
C18_StartIdempotent ==
    [][/\ startCalls' > startCalls =>
            IF scraperIsRunning
            THEN <<cronJobs, scheduled, initialTimers, scrapes, browser, results, ledger>>' =
                 <<cronJobs, scheduled, initialTimers, scrapes, browser, results, ledger>>
            ELSE initialTimers' = initialTimers + 1
       /\ startCalls' > 0 =>
            /\ scraperIsRunning'
            /\ cronJobs' = Jobs
            /\ \A j \in Jobs : scheduled'[j] = 1
       /\ (startCalls > 0 /\ startCalls' > 0) => initialTimers' <= initialTimers]_vars

\* start() has been called three times in a row: four jobs, one initial tick
C18_Witness ==
    /\ startCalls = MaxStarts
    /\ scraperIsRunning /\ cronJobs = Jobs
    /\ \A j \in Jobs : scheduled[j] = 1
    /\ initialTimers = 1

\* the scrapeByPriority invocations of tier t in flight
TierTicks(t) ==
    BagCardinality([tk \in {x \in Scraping : x.tier = t} |-> CopiesIn(tk, scrapes)])

\* C19: two ticks of the same tier never execute concurrently: at any time
\* at most one scrapeByPriority(t) invocation is in flight for each tier t,
\* a tick that comes due meanwhile (cron or the initial tick) being skipped.
C19_OneTickPerTier == \A t \in Tiers : TierTicks(t) <= 1

\* the ticks that have issued their probes
Probing(b) ==
    BagCardinality([tk \in {x \in BagToSet(b) : x.pc = "probe"} |-> CopiesIn(tk, b)])

\* C20: once stop() has returned and while the scheduler stays stopped, no
\* tier tick begins, and a tick that was in flight at stop() issues no
\* further probe, writes no cache entry and creates no Purchase.
C20_NothingAfterStop ==
    [][(~scraperIsRunning /\ ~scraperIsRunning') =>
          /\ BagCardinality(scrapes') <= BagCardinality(scrapes)
          /\ Probing(scrapes') <= Probing(scrapes)
          /\ results' = results
          /\ ledger' = ledger]_vars

\* C21: a Purchase whose execution was in flight when PurchaseManager.stop()
\* was called leaves processing only for cancelled: the execution's outcome
\* is not recorded as success, nor as a failed attempt that returns the
\* Purchase to pending or moves it to failed.
C21_StopCancelsInFlight ==
    [][\A i \in Ids :
          /\ ledger[i].stopped /\ ledger[i].status = "processing"
          /\ ledger'[i].status # "processing"
          => ledger'[i].status = "cancelled"]_vars

\* the step settles pair k of tick tk, its probe having succeeded (ok) or not
SettledOn(tk, k, ok) ==
    /\ tk.pc = "probe" /\ k \in tk.pending
    /\ CopiesIn(tk, scrapes') = CopiesIn(tk, scrapes) - 1
    /\ LET oks == IF ok THEN tk.ok \cup {k} ELSE tk.ok
           after == [tk EXCEPT !.pending = @ \ {k}, !.ok = oks]
       IN IF tk.pending = {k}
          THEN /\ BagCardinality(scrapes') < BagCardinality(scrapes)
               /\ report'.tier = tk.tier /\ report'.ok = oks
          ELSE CopiesIn(after, scrapes') = CopiesIn(after, scrapes) + 1

\* C22: within a tier tick the probes are joined settle-all. A pair whose
\* probe fails leaves cache, ledger and decision trail as they are and its
\* siblings pending; a pair whose probe succeeds has its own cache entry
\* written and the decision logic run once, on it alone; and a tick logs its
\* counts only when the probe of every one of its pairs has come back.
C22_SettleAll ==
    [][/\ \A tk \in Scraping, k \in CacheKeys :
            /\ SettledOn(tk, k, FALSE) =>
                  results' = results /\ ledger' = ledger /\ emitted' = emitted
            /\ SettledOn(tk, k, TRUE) =>
                  /\ results'[k].cached
                  /\ \A k2 \in CacheKeys \ {k} : results'[k2] = results[k2]
                  /\ emitted'.by = "scraper"
                  /\ emitted'.sku = k[1] /\ emitted'.website = k[2]
                  /\ Len(ledger') <= Len(ledger) + 1
       /\ report' # report => report'.probed = report'.pairs]_vars

\* a tick over the high tier has finished: the walmart probe failed, the
\* target probe succeeded and its result is cached
C22_Witness ==
    /\ report.tier = "high"
    /\ report.probed = report.pairs
    /\ <<"sku1", "target">> \in report.ok
    /\ <<"sku1", "walmart">> \in report.probed \ report.ok
    /\ results[<<"sku1", "target">>].cached
    /\ ~results[<<"sku1", "walmart">>].cached

\* C23: the counts a tier tick over k pairs logs add up to k, failed being
\* the number of pairs whose probe failed and succeeded the number of pairs
\* whose probe succeeded.
C23_CountsMatchProbes ==
    report.tier # "none" =>
        /\ report.succeeded + report.failed = Cardinality(report.pairs)
        /\ report.failed = Cardinality(report.probed \ report.ok)
        /\ report.succeeded = Cardinality(report.ok)

\* C24: the cache holds at most one entry per (item, retailer); a write for
\* a key replaces the entry whole, so a lookup after the write (before the
\* clock moves) returns exactly the result written; a lookup for a key never
\* written (or evicted) returns nothing.
C24_CacheRoundTrip ==
    \A s \in Skus, w \in Websites :
        LET found == GetResultKeys(s, w) IN
            /\ Cardinality(found) <= 1
            /\ ~results[<<s, w>>].cached => found = {}
            /\ /\ emitted.by = "scraper" /\ emitted.sku = s /\ emitted.website = w
               /\ results[<<s, w>>].cached /\ results[<<s, w>>].age = 0
               => {results[k] : k \in found} =
                      {[cached |-> TRUE, price |-> emitted.price,
                        inStock |-> emitted.inStock, age |-> 0]}

\* a second write for a key has replaced the first: the lookup returns the
\* second result, out of stock at price 3, and the key written before is
\* in stock at price 1
C24_Witness ==
    /\ GetResults("sku1", "target") =
           {[cached |-> TRUE, price |-> 3, inStock |-> FALSE, age |-> 0]}
    /\ results[<<"sku2", "target">>].cached
    /\ results[<<"sku2", "target">>].age > 0
    /\ GetResults("sku1", "walmart") = {}
    /\ Len(ledger) > 0 /\ ledger[1].sku = "sku1" /\ ledger[1].website = "target"

\* C25: a run of cleanup() (a step that logs it and in which no entry ages)
\* evicts every entry whose timestamp is more than
\* the retention window old and leaves every other entry as it is; and no
\* step at all drops an entry that is within the window, so a write is never
\* lost to a cleanup.
C25_CleanupEvictsOnlyOld ==
    [][/\ emitted'.by = "cleanup" /\ (\A k \in CacheKeys : results'[k].age <= results[k].age) =>
            \A k \in CacheKeys :
                IF results[k].cached /\ results[k].age > RetentionWindow
                THEN ~results'[k].cached
                ELSE results'[k] = results[k]
       /\ \A k \in CacheKeys :
            results[k].cached /\ results[k].age <= RetentionWindow =>
                results'[k].cached]_vars

\* cleanup() has just run over an entry at the window and one beyond it: the
\* first is kept, the second is gone
C25_Witness ==
    /\ emitted.by = "cleanup"
    /\ results[<<"sku1", "target">>].cached
    /\ results[<<"sku1", "target">>].age = RetentionWindow
    /\ ~results[<<"sku2", "target">>].cached
    /\ \E i \in Ids : ledger[i].sku = "sku1"

\* C26: the failure notification hook is called for a Purchase only by the
\* failed attempt that makes it failed, and once per Purchase: a failed
\* attempt that returns the Purchase to pending calls no hook.
C26_FailureHookOnlyAtCeiling ==
    [][\A i \in Ids :
          ledger'[i].failureHooks > ledger[i].failureHooks =>
              /\ ledger'[i].status = "failed"
              /\ ledger[i].failureHooks = 0]_vars

\* the status a failed attempt leaves, as decided by the attempt count
StatusByAttempts(p) ==
    IF p.attemptNumber > p.maxAttempts THEN "failed" ELSE "pending"

\* C27: a notification hook whose send fails leaves the status the handler
\* decided: success after handlePurchaseSuccess, pending or failed by the
\* attempt count after handlePurchaseError.
C27_HookFailureKeepsStatus ==
    [][\A i \in Ids :
          ledger'[i].lostHooks > ledger[i].lostHooks =>
              /\ ledger'[i].successHooks > ledger[i].successHooks =>
                     ledger'[i].status = "success"
              /\ ledger'[i].failureHooks > ledger[i].failureHooks =>
                     ledger'[i].status = StatusByAttempts(ledger'[i])]_vars

\* a Purchase is success although its success hook failed to send, after a
\* failed attempt whose failure hook failed to send as well
C27_Witness ==
    \E i \in Ids : /\ ledger[i].status = "success"
                    /\ ledger[i].successHooks = 1
                    /\ ledger[i].failureHooks = 1
                    /\ ledger[i].lostHooks = 2

\* C28: a probe that succeeds has read its price from a page showing its own
\* item: no other probe of the tick has sent the retailer's page elsewhere
\* between this probe's navigation and its read.
C28_ProbeReadsOwnPage ==
    [][\A tk \in Scraping, k \in CacheKeys :
          SettledOn(tk, k, TRUE) => page[k[2]] = k[1]]_vars

\* the step is one in which tick tk catches an exception: its catalog load
\* rejects, the probe of one of its pairs fails, or the processing of a
\* pair's result fails to save the purchase
TickCaught(tk) ==
    \/ /\ tk.pc = "find"
       /\ CopiesIn(tk, scrapes') = CopiesIn(tk, scrapes) - 1
       /\ report' # report /\ report'.error /\ report'.tier = tk.tier
    \/ \E k \in CacheKeys : SettledOn(tk, k, FALSE)
    \/ \E k \in CacheKeys : SettledOn(tk, k, TRUE) /\ SaveError \in emitted'.log

\* C29: an exception raised inside a tier's tick (catalog load, probe,
\* result processing) is caught inside that tick: the step leaves the
\* scheduler's running flag, its jobs and their schedule, and the pending
\* initial tick as they are, and ends no other tick in flight.
C29_TickErrorsContained ==
    [][\A tk \in Scraping :
          TickCaught(tk) =>
              /\ scraperIsRunning' = scraperIsRunning
              /\ cronJobs' = cronJobs
              /\ scheduled' = scheduled
              /\ initialTimers' = initialTimers
              /\ \A other \in Scraping \ {tk} :
                     CopiesIn(other, scrapes') >= CopiesIn(other, scrapes)]_vars

\* a tick of the tier whose catalog load failed is probing again, the
\* scheduler running with its jobs
C29_Witness ==
    /\ report.error /\ scraperIsRunning /\ cronJobs = Jobs
    /\ \E tk \in Scraping : tk.tier = report.tier /\ tk.pc = "probe"

\* the step is a stop() of the running scheduler
StopStep == scraperIsRunning /\ ~scraperIsRunning'

\* the step is the probe fan-out of tick tk: scrapeSingleProduct is called
\* for its pairs
IssueStep(tk) ==
    /\ tk.pc = "find"
    /\ CopiesIn(tk, scrapes') = CopiesIn(tk, scrapes) - 1
    /\ \E after \in BagToSet(scrapes') :
           /\ after.pc = "probe" /\ after.tier = tk.tier /\ after.pending = after.all
           /\ CopiesIn(after, scrapes') = CopiesIn(after, scrapes) + 1

\* C30: a browser is released once per stop() and acquired anew afterwards:
\* a stop() never closes a browser that an earlier stop() has closed, and the
\* probes a running scheduler issues never go to a scraper whose browser is
\* closed.
C30_BrowserReleasedOnce ==
    [][/\ StopStep => \A w \in Websites : browser[w] # "closed"
       /\ \A tk \in Scraping :
              IssueStep(tk) /\ scraperIsRunning =>
                  \A k \in Pairs(tk.tier) :
                      k[2] \in WorkingScrapers => browser[k[2]] # "closed"]_vars

\* Purchase i is in its first execution and neither cancelPurchase nor
\* stop() has signalled it
Unsignalled(i) ==
    /\ ledger[i].status = "processing"
    /\ ~ledger[i].stopped
    /\ ledger[i].errors = <<>>

\* C31: cancelling a Purchase affects that Purchase's execution alone: an
\* execution in flight of a Purchase that was never signalled can still report
\* success, whatever was cancelled at its retailer before or meanwhile.
C31_CancelHitsOnlyItsPurchase ==
    \A tk \in Running :
        tk.pc = "exec" /\ Unsignalled(Head(tk.docs).id) =>
            CanSucceed(ledger[Head(tk.docs).id].website)

\* the Purchases with a processPurchase call between activePurchases.set and
\* its finally: executePurchase is in flight, or its outcome is being recorded
BeingExecuted ==
    {i \in Ids : \E tk \in Running :
        tk.kind \in {"pending", "retry"} /\ tk.pc \in {"exec", "finally"}
        /\ Head(tk.docs).id = i}

\* C32: the keys of activePurchases are the Purchases being executed: every
\* Purchase being executed is tracked, and no entry outlives or precedes the
\* executions of its Purchase.
C32_ActiveIsExecuting == activePurchases = BeingExecuted

\* a purchase record for key k was created less than a cooldown ago: its
\* cooldown key is set and fresh, or the check that created it has yet to set
\* the key
CreatedWithinCooldown(k) ==
    \/ Cooling(k)
    \/ \E c \in checks : c.pc = "set" /\ Head(c.todo) = k

\* the step adds a purchase record for key k to testStorage
RecordAdded(k) ==
    /\ Len(testPurchases') = Len(testPurchases) + 1
    /\ testPurchases'[Len(testPurchases')].sku = k[1]
    /\ testPurchases'[Len(testPurchases')].website = k[2]

\* C33: the bot creates at most one purchase record per (item, retailer)
\* within a cooldown window, also when two checks are in flight at once: no
\* record is added for a key that had one created less than a cooldown ago.
C33_OneRecordPerCooldown ==
    [][\A k \in BotKeys : RecordAdded(k) => ~CreatedWithinCooldown(k)]_vars

\* C34: a failed probe for a pair leaves the whole cache as it is, and an
\* entry changes only in a step that settles its own pair with a successful
\* probe and writes that probe's price and stock flag: every cache entry is
\* the result of a successful probe.
C34_FailedProbeKeepsCache ==
    [][\A k \in CacheKeys :
          /\ \A tk \in Scraping : SettledOn(tk, k, FALSE) => results' = results
          /\ results'[k] # results[k] =>
                /\ \E tk \in Scraping : SettledOn(tk, k, TRUE)
                /\ emitted'.probe.success
                /\ emitted'.sku = k[1] /\ emitted'.website = k[2]
                /\ results'[k] = [cached |-> TRUE, price |-> emitted'.probe.price,
                                  inStock |-> emitted'.probe.inStock, age |-> 0]]_vars

\* a tick has finished in which the target probe of sku1 failed, and the
\* entry an earlier successful probe wrote for the pair is still cached
C34_Witness ==
    /\ report.probed = report.pairs
    /\ <<"sku1", "target">> \in report.probed \ report.ok
    /\ results[<<"sku1", "target">>] =
           [cached |-> TRUE, price |-> TargetPrice("sku1"), inStock |-> TRUE, age |-> 0]

====
